---- MODULE Spec2Model ----
(***************************************************************************)
(* The frontend API client of the currency converter (class ApiService):   *)
(* makeRequest with its per-attempt timeout, its retry decision and its    *)
(* exponential backoff, and the caller-facing operations built on it.      *)
(*                                                                         *)
(* Time is in milliseconds.  A timer set for d ms fires exactly d ms after *)
(* it was set.  Strings the code inspects (error messages) are sequences   *)
(* of one-character strings, so that String.includes is computed.          *)
(***************************************************************************)
EXTENDS Integers, Sequences, FiniteSets, TLC

\* ---------------------------------------------------------------- bounds
\* CONFIG.API.RETRY.MAX_ATTEMPTS is drawn from 1..MaxAttemptsCfg
MaxAttemptsCfg == 3
\* latency of a network answer that is not instantaneous
Latency == 250

\* ------------------------------------------------------- CONFIG (config.js)
TIMEOUT == 10000
MAX_ATTEMPTS == 3
DELAY == 1000

\* ------------------------------------------------------------ state
VARIABLES
    retryConfig,    \* this.retryConfig = CONFIG.API.RETRY
    op,             \* the operation the caller invoked ("none" before the call)
    options,        \* the options argument of makeRequest
    pc,             \* where the operation is suspended
    attempt,        \* the attempt parameter of the innermost makeRequest frame
    frames,         \* errors held by the outer frames, each awaiting in its catch block
    fetchInit,      \* the init object of the fetch in flight
    timers,         \* pending timeout timers (setTimeout not yet fired or cleared)
    callerAborted,  \* the caller has aborted the signal it passed in options
    settled,        \* how the outermost makeRequest promise settled
    result,         \* the promise of the caller-facing operation
    now,            \* the clock
    starts,         \* start time of every fetch attempt made
    waits,          \* every backoff delay slept
    errlog,         \* the error every failed attempt ended with
    ends,           \* the time every attempt ended (response, rejection or abort)
    cancelledAt,    \* how many attempts had started when the caller aborted, -1 before
    input,          \* the argument of the caller-facing operation
    pair,           \* two makeRequest calls running on the one apiService instance
    ui,             \* CurrencyConverterApp: form fields, state, sections on display
    validate,       \* validate-cluster.sh: counters, position, exit status
    teardown,       \* teardown-cluster.sh: options, Terraform directory, Kind clusters
    setup,          \* setup-cluster.sh: options, Kind clusters, Terraform commands run
    ci,             \* CI runner: mode, stages to run, stages run, exit status
    healthCheck     \* CurrencyConverterApp: the API status on display and the health checks started

\* the state of the single operation followed in detail
apiVars == <<op, options, pc, attempt, frames, fetchInit, timers,
             callerAborted, settled, result, now, starts, waits, errlog, ends, cancelledAt, input>>

\* the state of the other components, which no step of that operation touches
others == <<pair, ui, validate, teardown, setup, ci, healthCheck>>

vars == <<retryConfig, apiVars, others>>

\* what the steps of each of the other components leave alone
PairRest == <<retryConfig, apiVars, ui, validate, teardown, setup, ci, healthCheck>>

UiRest == <<retryConfig, apiVars, pair, validate, teardown, setup, ci, healthCheck>>

ValidateRest == <<retryConfig, apiVars, pair, ui, teardown, setup, ci, healthCheck>>

TeardownRest == <<retryConfig, apiVars, pair, ui, validate, setup, ci, healthCheck>>

SetupRest == <<retryConfig, apiVars, pair, ui, validate, teardown, ci, healthCheck>>

CiRest == <<retryConfig, apiVars, pair, ui, validate, teardown, setup, healthCheck>>

HealthRest == <<retryConfig, apiVars, pair, ui, validate, teardown, setup, ci>>

\* ------------------------------------------------------------ strings
RECURSIVE Digits(_)
\* decimal digits of a natural number, as template-literal interpolation prints it
Digits(n) ==
    LET d == <<"0","1","2","3","4","5","6","7","8","9">>[(n % 10) + 1]
    IN  IF n < 10 THEN <<d>> ELSE Digits(n \div 10) \o <<d>>

\* String.prototype.includes
includes(s, sub) ==
    \E i \in 0..(Len(s) - Len(sub)) : SubSeq(s, i + 1, i + Len(sub)) = sub

RECURSIVE Pow(_, _)
\* Math.pow on naturals
Pow(b, e) == IF e = 0 THEN 1 ELSE b * Pow(b, e - 1)

\* ------------------------------------------------------------ errors
MsgFailedToFetch == <<"F","a","i","l","e","d"," ","t","o"," ","f","e","t","c","h">>
MsgLoadFailed == <<"L","o","a","d"," ","f","a","i","l","e","d">>
MsgAborted == <<"T","h","e"," ","u","s","e","r"," ","a","b","o","r","t","e","d",
                " ","a"," ","r","e","q","u","e","s","t",".">>
MsgMissingParams == <<"M","i","s","s","i","n","g"," ","r","e","q","u","i","r","e","d">>
MsgPositive == <<"A","m","o","u","n","t"," ","m","u","s","t"," ","b","e"," ",
                 "p","o","s","i","t","i","v","e">>
MsgDifferent == <<"S","o","u","r","c","e"," ","a","n","d"," ","t","a","r","g","e","t">>
MsgConversionFailed == <<"C","o","n","v","e","r","s","i","o","n"," ","f","a","i","l","e","d">>
MsgUnexpectedToken == <<"U","n","e","x","p","e","c","t","e","d"," ","t","o","k","e","n">>
MsgNotAFunction == <<"n","o","t"," ","a"," ","f","u","n","c","t","i","o","n">>

\* response.statusText: the reason phrase the server sends (empty over HTTP/2
\* and for the codes without a phrase here)
StatusText(status) ==
    CASE status = 200 -> <<"O","K">>
      [] status = 404 -> <<"N","o","t"," ","F","o","u","n","d">>
      [] status = 405 -> <<"M","e","t","h","o","d"," ","N","o","t"," ",
                           "A","l","l","o","w","e","d">>
      [] status = 500 -> <<"I","n","t","e","r","n","a","l"," ","S","e","r","v","e","r",
                           " ","E","r","r","o","r">>
      [] status = 503 -> <<"S","e","r","v","i","c","e"," ","U","n","a","v","a","i","l",
                           "a","b","l","e">>
      [] OTHER -> <<>>

\* new Error(`HTTP ${response.status}: ${response.statusText}`)
HttpError(status) ==
    [name |-> "Error",
     message |-> <<"H","T","T","P"," ">> \o Digits(status) \o <<":"," ">> \o StatusText(status)]

\* the rejection of fetch on a connection-level failure: a TypeError whose
\* message is the browser's ("Failed to fetch" in Chromium, "Load failed" in WebKit)
NetworkErrors ==
    { [name |-> "TypeError", message |-> MsgFailedToFetch],
      [name |-> "TypeError", message |-> MsgLoadFailed] }

\* the rejection of fetch when its signal is aborted
AbortError == [name |-> "AbortError", message |-> MsgAborted]

\* the statuses the server answers with
Statuses == {200, 404, 405, 500, 503}

\* response.ok
ResponseOk(status) == status \in 200..299

NoError == [name |-> "", message |-> <<>>]
NoResponse == [status |-> 0, seq |-> 0]
NoData == [success |-> FALSE, seq |-> 0]

\* ------------------------------------------------------------ retry policy
\* variant: only the status 500 counts as a server error
shouldRetry_Only500(error) ==
    \/ error.name = "AbortError"
    \/ includes(error.message, <<"f","e","t","c","h">>)
    \/ includes(error.message, <<"5","0","0">>)

shouldRetry(error) ==
    \/ error.name = "AbortError"
    \/ includes(error.message, <<"f","e","t","c","h">>)
    \/ includes(error.message, <<"5">>)

\* variant: the bound compared with <= instead of <
RetryAllowed_OffByOne(att, error) ==
    att <= retryConfig.MAX_ATTEMPTS /\ shouldRetry(error)

\* the condition of the retry branch in the catch block of makeRequest
RetryAllowed(att, error) ==
    att < retryConfig.MAX_ATTEMPTS /\ shouldRetry(error)

\* variant: the exponent is attempt instead of attempt - 1
BackoffDelay_Doubled(att) == retryConfig.DELAY * Pow(2, att)

\* const delay = this.retryConfig.DELAY * Math.pow(2, attempt - 1)
BackoffDelay(att) == retryConfig.DELAY * Pow(2, att - 1)

\* variant: the recursive call skips an index
NextAttempt_Skip(att) == att + 2

\* the attempt argument of the recursive call
NextAttempt(att) == att + 1

\* variant: options spread after signal, so a signal in options wins
FetchInit_OptionsLast(opts) ==
    IF opts.signal = "none" THEN [opts EXCEPT !.signal = "controller"] ELSE opts

\* the init object handed to fetch: the spread of options, then signal
FetchInit(opts) == [opts EXCEPT !.signal = "controller"]

\* variant: an outer frame rethrows the error it caught itself
Rethrown_First(outer, error) == IF outer = <<>> THEN error ELSE outer[1]

\* the error the outermost makeRequest rejects with when the innermost frame
\* throws: every outer frame returns the promise of the frame it called
Rethrown(outer, error) == error

\* ------------------------------------------------------------ results
Pending == [state |-> "pending", success |-> FALSE, error |-> <<>>, data |-> NoData, status |-> ""]
Fulfilled(success, error, data, status) ==
    [state |-> "fulfilled", success |-> success, error |-> error, data |-> data, status |-> status]
Rejected(error) ==
    [state |-> "rejected", success |-> FALSE, error |-> error.message, data |-> NoData, status |-> ""]

\* variant: the catch block rethrows
WrapperCatch_Rethrow(o, error) == Rejected(error)

\* the catch block of a caller-facing operation
WrapperCatch(o, error) ==
    Fulfilled(FALSE, error.message, NoData, IF o = "checkHealth" THEN "unhealthy" ELSE "")

\* the return at the end of the try block of a caller-facing operation
WrapperSuccess(o, data) ==
    Fulfilled(TRUE, <<>>, data, IF o = "checkHealth" THEN "healthy" ELSE "")

Wrappers == {"checkHealth", "convertCurrency", "getExchangeRates", "getApiInfo"}

\* ------------------------------------------------------------ inputs
\* conversionData of convertCurrency; amount is a JavaScript value
Amounts == {"undefined", "0", "NaN", "''", "100", "-5", "'abc'", "'0'"}
Currencies == {"undefined", "USD", "EUR"}
ConversionInputs == [amount : Amounts, from : Currencies, to : Currencies]
\* baseCurrency of getExchangeRates ("undefined" takes the default 'USD')
BaseCurrencies == {"undefined", "EUR", "null"}
NoInput == [amount |-> "", from |-> "", to |-> ""]

\* !amount
Falsy(v) == v \in {"undefined", "0", "NaN", "''"}
\* isNaN(amount)
IsNaN(v) == v \in {"undefined", "NaN", "'abc'"}
\* amount <= 0
NonPositive(v) == v \in {"0", "''", "-5", "'0'"}

\* variant: the test from === to is missing
ValidationError_NoSameTest(d) ==
    IF Falsy(d.amount) \/ d.from = "undefined" \/ d.to = "undefined"
    THEN [name |-> "Error", message |-> MsgMissingParams]
    ELSE IF IsNaN(d.amount) \/ NonPositive(d.amount)
    THEN [name |-> "Error", message |-> MsgPositive]
    ELSE NoError

\* the validation at the head of convertCurrency: the error it throws, or NoError
ValidationError(d) ==
    IF Falsy(d.amount) \/ d.from = "undefined" \/ d.to = "undefined"
    THEN [name |-> "Error", message |-> MsgMissingParams]
    ELSE IF IsNaN(d.amount) \/ NonPositive(d.amount)
    THEN [name |-> "Error", message |-> MsgPositive]
    ELSE IF d.from = d.to
    THEN [name |-> "Error", message |-> MsgDifferent]
    ELSE NoError

\* ------------------------------------------------------------ timers
TimeoutTimer(att, t) == [kind |-> "timeout", attempt |-> att, due |-> t + TIMEOUT]
\* variant: the sleep is not awaited
SleepTimer_NotAwaited(att, t, ms) == [kind |-> "sleep", attempt |-> att, due |-> t]

\* the timer of sleep(ms), set at time t after failed attempt att
SleepTimer(att, t, ms) == [kind |-> "sleep", attempt |-> att, due |-> t + ms]

\* the timers still pending at time t, given that the timeout timers left behind
\* by settled attempts fire (abort of a settled request: no effect) when due
Expire(tm, t) == {x \in tm : x.due > t}

\* variant: clearTimeout is missing
ClearTimeout_Missing(tm, att) == tm

\* clearTimeout(timeoutId) of attempt att
ClearTimeout(tm, att) == {x \in tm : ~(x.kind = "timeout" /\ x.attempt = att)}

\* the timeout timer of the attempt in flight
CurrentTimers == {x \in timers : x.kind = "timeout" /\ x.attempt = attempt}

\* ------------------------------------------------------------ makeRequest
\* variant: no timeout timer is armed
StartAttempt_NoTimeout(att, t, tm, opts) ==
    /\ attempt' = att
    /\ fetchInit' = FetchInit(opts)
    /\ timers' = tm
    /\ starts' = Append(starts, t)
    /\ pc' = "fetch"

\* the try block up to the await of fetch
StartAttempt(att, t, tm, opts) ==
    /\ attempt' = att
    /\ fetchInit' = FetchInit(opts)
    /\ timers' = tm \cup {TimeoutTimer(att, t)}
    /\ starts' = Append(starts, t)
    /\ pc' = "fetch"

\* makeRequest rejects: the caller-facing operation catches, a direct caller sees
\* the rejection
Throw(error) ==
    /\ settled' = [kind |-> "throw", response |-> NoResponse, error |-> error]
    /\ result' = IF op \in Wrappers THEN WrapperCatch(op, error) ELSE Rejected(error)
    /\ frames' = <<>>
    /\ pc' = "done"

\* the catch block of makeRequest, entered at time t with the pending timers tm
Catch(error, t, tm) ==
    /\ errlog' = Append(errlog, error)
    /\ ends' = Append(ends, t)
    /\ IF RetryAllowed(attempt, error)
       THEN /\ waits' = Append(waits, BackoffDelay(attempt))
            /\ timers' = tm \cup {SleepTimer(attempt, t, BackoffDelay(attempt))}
            /\ frames' = Append(frames, error)
            /\ pc' = "sleep"
            /\ UNCHANGED <<settled, result>>
       ELSE /\ Throw(Rethrown(frames, error))
            /\ timers' = tm
            /\ UNCHANGED waits

\* ------------------------------------------------------------ two calls
\* the calls made concurrently on the singleton
Calls == {1, 2}

\* where the parameters and locals of call c live: in the activation record of
\* its own makeRequest invocation, never in a field of the shared instance
Slot_Shared(c) == 1

Slot(c) == c

PairIdle ==
    [pc |-> [c \in Calls |-> "idle"],
     attempt |-> [k \in Calls |-> 0],
     fetches |-> [c \in Calls |-> 0],
     waits |-> [c \in Calls |-> <<>>],
     log |-> [c \in Calls |-> <<>>],
     settled |-> [c \in Calls |-> [kind |-> "none", response |-> NoResponse, error |-> NoError]]]

\* what the network does to one fetch: a response with a status, or a rejection
PairOutcomes ==
    {[kind |-> "response", status |-> st, error |-> NoError] : st \in {200, 404, 503}}
    \cup {[kind |-> "rejection", status |-> 0, error |-> AbortError]}

\* the error makeRequest catches on outcome o
OutcomeError(o) == IF o.kind = "response" THEN HttpError(o.status) ELSE o.error

\* call c invokes makeRequest(url): attempt = 1, first fetch
PairCall(c) ==
    /\ pair.pc[c] = "idle"
    /\ pair' = [pair EXCEPT !.pc[c] = "fetch",
                            !.attempt[Slot(c)] = 1,
                            !.fetches[c] = 1,
                            !.settled[c].kind = "pending"]
    /\ UNCHANGED PairRest

\* the fetch of call c settles with outcome o
PairFetchSettles(c, o) ==
    /\ pair.pc[c] = "fetch"
    /\ LET att == pair.attempt[Slot(c)]
           logged == [pair EXCEPT !.log[c] = Append(@, o)] IN
       pair' =
         IF o.kind = "response" /\ ResponseOk(o.status)
         THEN [logged EXCEPT !.pc[c] = "done",
                             !.settled[c] = [kind |-> "return",
                                             response |-> [status |-> o.status, seq |-> att],
                                             error |-> NoError]]
         ELSE IF RetryAllowed(att, OutcomeError(o))
         THEN [logged EXCEPT !.pc[c] = "sleep",
                             !.waits[c] = Append(@, BackoffDelay(att))]
         ELSE [logged EXCEPT !.pc[c] = "done",
                             !.settled[c] = [kind |-> "throw", response |-> NoResponse,
                                             error |-> OutcomeError(o)]]
    /\ UNCHANGED PairRest

\* the backoff sleep of call c elapses: the recursive call and its fetch
PairSleepElapses(c) ==
    /\ pair.pc[c] = "sleep"
    /\ pair' = [pair EXCEPT !.pc[c] = "fetch",
                            !.attempt[Slot(c)] = NextAttempt(@),
                            !.fetches[c] = @ + 1]
    /\ UNCHANGED PairRest

PairNext ==
    \/ \E c \in Calls : PairCall(c)
    \/ \E c \in Calls, o \in PairOutcomes : PairFetchSettles(c, o)
    \/ \E c \in Calls : PairSleepElapses(c)

\* ------------------------------------------------------------ the page
\* the most conversions followed in one run of the page
MaxConversions == 3

\* what the user may leave in the amount field, and the currencies selectable
UiAmounts == {"100", "", "abc"}

UiCurrencies == {"USD", "EUR"}

MsgUnexpectedConversion == "An unexpected error occurred during conversion"

MsgConversionFallback == "Conversion failed"

\* what apiService.convertCurrency resolves with: it never rejects
ConversionResults ==
    {[success |-> TRUE, data |-> d, error |-> ""] : d \in {"complete", "malformed"}}
    \cup {[success |-> FALSE, data |-> "none", error |-> e] :
             e \in {"HTTP 503: Service Unavailable", "Unsupported currency"}}

NoConversionResult == [success |-> FALSE, data |-> "none", error |-> "none"]

\* the page after init(): elements bound, defaults set, nothing on display
UiReady ==
    [amountInput |-> "100", fromCurrencySelect |-> "USD", toCurrencySelect |-> "EUR",
     isLoading |-> FALSE, lastConversion |-> "null", convertBtnDisabled |-> FALSE,
     resultSection |-> FALSE, errorSection |-> FALSE, loadingSection |-> FALSE,
     errorMessage |-> "", awaiting |-> 0, refused |-> FALSE,
     started |-> 0, event |-> "init", outcome |-> NoConversionResult]

\* parseFloat(value || 0) > 0
ParsesPositive(v) == v = "100"

\* the value validateForm returns
IsValid(u) ==
    /\ ParsesPositive(u.amountInput)
    /\ u.fromCurrencySelect # u.toCurrencySelect

\* validateForm's effect on the page
ValidateForm(u) == [u EXCEPT !.convertBtnDisabled = ~IsValid(u) \/ u.isLoading]

SetLoadingState(u, loading) ==
    [u EXCEPT !.isLoading = loading, !.convertBtnDisabled = loading \/ ~IsValid(u)]

HideAllSections(u) ==
    [u EXCEPT !.resultSection = FALSE, !.errorSection = FALSE, !.loadingSection = FALSE]

ShowError_KeepSections(u, message) ==
    [u EXCEPT !.errorMessage = message, !.errorSection = TRUE]

ShowError(u, message) ==
    [HideAllSections(u) EXCEPT !.errorMessage = message, !.errorSection = TRUE]

ShowLoadingSection(u) == [HideAllSections(u) EXCEPT !.loadingSection = TRUE]

\* formatAmount / getCurrencyInfo throw on data without its currency fields
ShowConversionResultThrows(data) == data = "malformed"

ShowConversionResult(u, data) ==
    IF ShowConversionResultThrows(data)
    THEN HideAllSections(u)
    ELSE [HideAllSections(u) EXCEPT !.resultSection = TRUE]

\* result.error || 'Conversion failed'
ErrorText(res) == IF res.error = "" THEN MsgConversionFallback ELSE res.error

HandleConversion_NoLoadingGuard(u) ==
    IF ~IsValid(u)
    THEN [ValidateForm(u) EXCEPT !.refused = FALSE]
    ELSE [ShowLoadingSection(SetLoadingState(ValidateForm(u), TRUE))
            EXCEPT !.awaiting = @ + 1, !.started = @ + 1, !.refused = FALSE]

\* handleConversion up to its await; awaiting counts the calls suspended
\* there, refused tells that this call returned because one was loading
HandleConversion(u) ==
    IF ~IsValid(u) \/ u.isLoading
    THEN [ValidateForm(u) EXCEPT !.refused = IsValid(u) /\ u.isLoading]
    ELSE [ShowLoadingSection(SetLoadingState(ValidateForm(u), TRUE))
            EXCEPT !.awaiting = @ + 1, !.started = @ + 1, !.refused = FALSE]

\* handleConversion from the await on: try, catch, finally
ResumeConversion(u, res) ==
    LET shown ==
          IF res.success
          THEN LET u1 == [u EXCEPT !.lastConversion = res.data] IN
               IF ShowConversionResultThrows(res.data)
               THEN ShowError(ShowConversionResult(u1, res.data), MsgUnexpectedConversion)
               ELSE ShowConversionResult(u1, res.data)
          ELSE ShowError(u, ErrorText(res))
    IN [SetLoadingState(shown, FALSE) EXCEPT !.awaiting = @ - 1, !.outcome = res]

\* the user edits the amount or picks a currency: input/change listeners
UiInput(field, v) ==
    /\ field \in {"amountInput", "fromCurrencySelect", "toCurrencySelect"}
    /\ v \in (IF field = "amountInput" THEN UiAmounts ELSE UiCurrencies)
    /\ ui[field] # v
    /\ ui' = [ValidateForm([ui EXCEPT ![field] = v]) EXCEPT !.event = "input"]
    /\ UNCHANGED UiRest

\* the form is submitted
UiSubmit ==
    /\ ui.started < MaxConversions
    /\ ui' = [HandleConversion(ui) EXCEPT !.event = "submit"]
    /\ UNCHANGED UiRest

\* the enabled convert button is clicked
UiConvertClick ==
    /\ ui.started < MaxConversions
    /\ ~ui.convertBtnDisabled
    /\ ui' = [HandleConversion(ui) EXCEPT !.event = "convert"]
    /\ UNCHANGED UiRest

\* Enter is pressed in the amount field: validateForm() && handleConversion()
UiEnterKey ==
    /\ ui.started < MaxConversions
    /\ ui' = [(IF IsValid(ui) THEN HandleConversion(ValidateForm(ui)) ELSE ValidateForm(ui))
              EXCEPT !.event = "enter"]
    /\ UNCHANGED UiRest

\* the swap button is clicked: handleCurrencySwap
UiSwapClick ==
    /\ ui' = [HideAllSections(ValidateForm(
                 [ui EXCEPT !.fromCurrencySelect = ui.toCurrencySelect,
                            !.toCurrencySelect = ui.fromCurrencySelect]))
               EXCEPT !.event = "swap"]
    /\ UNCHANGED UiRest

\* the retry button, which lives in the error section, is clicked
UiRetryClick ==
    /\ ui.started < MaxConversions
    /\ ui.errorSection
    /\ ui' = [HandleConversion(HideAllSections(ui)) EXCEPT !.event = "retry"]
    /\ UNCHANGED UiRest

\* the awaited apiService.convertCurrency resolves with res
UiConversionSettles(res) ==
    /\ ui.awaiting > 0
    /\ ui' = [ResumeConversion(ui, res) EXCEPT !.event = "settled"]
    /\ UNCHANGED UiRest

UiNext ==
    \/ \E field \in {"amountInput", "fromCurrencySelect", "toCurrencySelect"},
          v \in UiAmounts \cup UiCurrencies : UiInput(field, v)
    \/ UiSubmit
    \/ UiConvertClick
    \/ UiEnterKey
    \/ UiSwapClick
    \/ UiRetryClick
    \/ \E res \in ConversionResults : UiConversionSettles(res)

\* ------------------------------------------------------------ API status
\* the most health checks followed in one run of the page
MaxHealthChecks == 3

HEALTH_CHECK_INTERVAL == 30000

\* the longest a checkHealth call can take: every attempt runs into the
\* timeout and every backoff is slept
CheckDuration ==
    retryConfig.MAX_ATTEMPTS * TIMEOUT
      + DELAY * (Pow(2, retryConfig.MAX_ATTEMPTS - 1) - 1)

\* the page inside init(): listeners set up, apiHealthy still false, the
\* initial checkApiHealth awaited
HealthReady ==
    [apiHealthy |-> FALSE, apiStatus |-> "", initialized |-> FALSE,
     checks |-> <<[trigger |-> "init", result |-> "pending"]>>, applied |-> 0]

\* checkApiHealth up to its await
StartCheck(h, trigger) ==
    [h EXCEPT !.checks = Append(@, [trigger |-> trigger, result |-> "pending"])]

\* the interval checks still awaited
PendingInterval(h) ==
    {i \in 1..Len(h.checks) :
        h.checks[i].trigger = "interval" /\ h.checks[i].result = "pending"}

\* updateApiStatus(healthy)
updateApiStatus(h, healthy) ==
    [h EXCEPT !.apiHealthy = healthy,
              !.apiStatus = IF healthy THEN "Connected" ELSE "Disconnected"]

\* the window gets the focus: a check starts if the API is shown unhealthy
HealthFocus ==
    /\ Len(healthCheck.checks) < MaxHealthChecks
    /\ ~healthCheck.apiHealthy
    /\ healthCheck' = StartCheck(healthCheck, "focus")
    /\ UNCHANGED HealthRest

\* the setInterval callback of startHealthCheck fires; a tick finds k earlier
\* interval checks still awaited only if k intervals are shorter than a check
HealthInterval ==
    /\ Len(healthCheck.checks) < MaxHealthChecks
    /\ healthCheck.initialized
    /\ Cardinality(PendingInterval(healthCheck)) * HEALTH_CHECK_INTERVAL < CheckDuration
    /\ healthCheck' = StartCheck(healthCheck, "interval")
    /\ UNCHANGED HealthRest

\* the awaited apiService.checkHealth of check i resolves; the check of
\* init() then goes on to startHealthCheck
HealthCheckSettles(i, healthy) ==
    /\ i \in 1..Len(healthCheck.checks)
    /\ healthCheck.checks[i].result = "pending"
    /\ healthCheck' =
         [updateApiStatus(healthCheck, healthy) EXCEPT
            !.checks[i].result = IF healthy THEN "healthy" ELSE "unhealthy",
            !.applied = i,
            !.initialized = @ \/ healthCheck.checks[i].trigger = "init"]
    /\ UNCHANGED HealthRest

HealthNext ==
    \/ HealthFocus
    \/ HealthInterval
    \/ \E i \in 1..MaxHealthChecks, healthy \in BOOLEAN : HealthCheckSettles(i, healthy)

\* ------------------------------------------------------------ validate-cluster.sh
\* the command lines followed
ValidateArgs ==
    {<<>>, <<"--verbose">>, <<"-v">>, <<"--info">>, <<"--verbose", "--info">>,
     <<"--help">>, <<"--bogus">>}

Results == {"PASS", "FAIL", "WARN", "SKIP"}

\* what a run_test command does: exit 0 with the expected text in its output,
\* exit 0 without it, or a non-zero exit
RunOutcomes == {"match", "nomatch", "nonzero"}

\* the script before main: TESTS_PASSED=0, TESTS_FAILED=0, VERBOSE=false
ValidateIdle ==
    [pc |-> "main", VERBOSE |-> FALSE, info_only |-> FALSE,
     TESTS_PASSED |-> 0, TESTS_FAILED |-> 0,
     reported |-> [r \in Results |-> 0],
     nodes |-> <<>>, allNodesReady |-> "none", resources |-> {},
     summary |-> "none", exit |-> -1]

\* print_test_result: PASS counts as passed, every other result as failed
print_test_result(v, res) ==
    IF res = "PASS"
    THEN [v EXCEPT !.TESTS_PASSED = @ + 1, !.reported[res] = @ + 1]
    ELSE [v EXCEPT !.TESTS_FAILED = @ + 1, !.reported[res] = @ + 1]

run_test(v, out) ==
    IF out = "nonzero" THEN print_test_result(v, "FAIL")
    ELSE IF out = "match" THEN print_test_result(v, "PASS")
    ELSE print_test_result(v, "FAIL")

\* the most nodes kubectl get nodes lists
MaxNodes == 2

StatusReady == <<"R","e","a","d","y">>

StatusNotReady == <<"N","o","t","R","e","a","d","y">>

StatusUnknown == <<"U","n","k","n","o","w","n">>

\* the STATUS column of the lines of kubectl get nodes --no-headers
NodeLists ==
    UNION {[1..n -> {StatusReady, StatusNotReady, StatusUnknown}] : n \in 0..MaxNodes}

\* grep -v pattern: the lines that do not contain the pattern
grep_v(lines, pattern) == SelectSeq(lines, LAMBDA l : ~includes(l, pattern))

\* the command of 'All nodes ready' and run_test's grep -q "0" on its output;
\* the status of the pipeline is that of wc
AllNodesReady(nodes) ==
    LET output == Digits(Len(grep_v(nodes, StatusReady))) IN
    IF includes(output, <<"0">>) THEN "match" ELSE "nomatch"

RECURSIVE run_tests(_, _)
\* consecutive run_test calls on the outcomes outs
run_tests(v, outs) ==
    IF outs = <<>> THEN v
    ELSE run_tests(run_test(v, Head(outs)), Tail(outs))

\* the script ends with status code
Exit(v, code) == [v EXCEPT !.pc = "exited", !.exit = code]

RECURSIVE ParseValidateArgs(_, _)
\* the while/case loop of main
ParseValidateArgs(v, args) ==
    IF args = <<>> THEN v
    ELSE IF Head(args) \in {"--verbose", "-v"}
    THEN ParseValidateArgs([v EXCEPT !.VERBOSE = TRUE], Tail(args))
    ELSE IF Head(args) = "--info"
    THEN ParseValidateArgs([v EXCEPT !.info_only = TRUE], Tail(args))
    ELSE IF Head(args) \in {"-h", "--help"} THEN Exit(v, 0)
    ELSE Exit(v, 1)

\* main up to the first test function: arguments, check_prerequisites and
\* the --info path
ValidateMain(args, kubeconfig, kubectlOk) ==
    /\ validate.pc = "main"
    /\ LET v == ParseValidateArgs(validate, args) IN
       validate' =
         IF v.pc = "exited" THEN v
         ELSE IF ~kubeconfig THEN Exit(v, 1)
         ELSE IF v.info_only THEN Exit(v, IF kubectlOk THEN 0 ELSE 1)
         ELSE [v EXCEPT !.pc = "test_cluster_basics"]
    /\ UNCHANGED ValidateRest

\* the six run_test calls; outs are the outcomes of the five commands other
\* than 'All nodes ready', which is computed on the node list
test_cluster_basics(outs, nodes) ==
    /\ validate.pc = "test_cluster_basics"
    /\ LET ready == AllNodesReady(nodes) IN
       validate' =
         [run_tests(validate, SubSeq(outs, 1, 3) \o <<ready>> \o SubSeq(outs, 4, 5))
          EXCEPT !.nodes = nodes,
                 !.allNodesReady = IF ready = "match" THEN "PASS" ELSE "FAIL",
                 !.pc = "test_argocd"]
    /\ UNCHANGED ValidateRest

test_argocd(installed, outs, secret) ==
    /\ validate.pc = "test_argocd"
    /\ validate' =
         [(IF installed
           THEN print_test_result(run_tests(validate, outs),
                                  IF secret THEN "PASS" ELSE "WARN")
           ELSE print_test_result(validate, "SKIP"))
          EXCEPT !.pc = "test_metrics_server"]
    /\ UNCHANGED ValidateRest

test_metrics_server(installed, outs, top) ==
    /\ validate.pc = "test_metrics_server"
    /\ validate' =
         [(IF installed
           THEN print_test_result(run_tests(validate, outs),
                                  IF top THEN "PASS" ELSE "WARN")
           ELSE print_test_result(validate, "SKIP"))
          EXCEPT !.pc = "test_networking"]
    /\ UNCHANGED ValidateRest

\* the resources the test functions create in namespace currency-converter
TestResources ==
    {"test-pod-1", "test-pod-2", "test-pvc", "test-lb-service", "test-lb-deployment",
     "test-port-forward"}

\* kubectl apply / kubectl delete of the named resources; a delete of an
\* existing resource is taken to succeed
Apply(v, names) == [v EXCEPT !.resources = @ \cup names]

Delete(v, names) == [v EXCEPT !.resources = @ \ names]

\* failAt: the bare kubectl command that fails (0: none; 1, 2: kubectl apply
\* of test-pod-1, test-pod-2; 3, 4: kubectl wait for them); under set -e a
\* failing one ends the script on the spot
test_networking(dns, failAt, ips, ping) ==
    /\ validate.pc = "test_networking"
    /\ LET v == run_test(validate, dns) IN
       validate' =
         IF failAt = 1 THEN Exit(v, 1)
         ELSE IF failAt = 2 THEN Exit(Apply(v, {"test-pod-1"}), 1)
         ELSE IF failAt \in {3, 4} THEN Exit(Apply(v, {"test-pod-1", "test-pod-2"}), 1)
         ELSE [Delete(print_test_result(Apply(v, {"test-pod-1", "test-pod-2"}),
                                        IF ips /\ ping THEN "PASS" ELSE "FAIL"),
                      {"test-pod-1", "test-pod-2"})
               EXCEPT !.pc = "test_storage"]
    /\ UNCHANGED ValidateRest

\* kubectlOk: the bare kubectl apply of test-pvc succeeds
test_storage(storageclass, kubectlOk, bound) ==
    /\ validate.pc = "test_storage"
    /\ LET v == run_test(validate, storageclass) IN
       validate' =
         IF ~kubectlOk THEN Exit(v, 1)
         ELSE [Delete(print_test_result(Apply(v, {"test-pvc"}),
                                        IF bound THEN "PASS" ELSE "FAIL"),
                      {"test-pvc"})
               EXCEPT !.pc = "test_load_balancer"]
    /\ UNCHANGED ValidateRest

\* applied: the documents of the manifest that kubectl apply created; the
\* command fails unless it created both
test_load_balancer(applied, external) ==
    /\ validate.pc = "test_load_balancer"
    /\ LET v == Apply(validate, applied) IN
       validate' =
         IF applied # {"test-lb-service", "test-lb-deployment"} THEN Exit(v, 1)
         ELSE [Delete(print_test_result(v, IF external THEN "PASS" ELSE "WARN"),
                      {"test-lb-deployment", "test-lb-service"})
               EXCEPT !.pc = "test_port_forwarding"]
    /\ UNCHANGED ValidateRest

\* failAt: 1 the kubectl apply of test-port-forward fails, 2 the kubectl wait
test_port_forwarding(failAt, curl) ==
    /\ validate.pc = "test_port_forwarding"
    /\ validate' =
         IF failAt = 1 THEN Exit(validate, 1)
         ELSE IF failAt = 2 THEN Exit(Apply(validate, {"test-port-forward"}), 1)
         ELSE [Delete(print_test_result(Apply(validate, {"test-port-forward"}),
                                        IF curl THEN "PASS" ELSE "FAIL"),
                      {"test-port-forward"})
               EXCEPT !.pc = "show_test_summary"]
    /\ UNCHANGED ValidateRest

\* the rest of main: display_cluster_info when verbose, then the summary,
\* whose return value is the exit status
show_test_summary(kubectlOk) ==
    /\ validate.pc = "show_test_summary"
    /\ validate' =
         IF validate.VERBOSE /\ ~kubectlOk THEN Exit(validate, 1)
         ELSE IF validate.TESTS_FAILED = 0
         THEN Exit([validate EXCEPT !.summary = "All tests passed"], 0)
         ELSE Exit([validate EXCEPT !.summary = "Some tests failed"], 1)
    /\ UNCHANGED ValidateRest

Tuples(n) == [1..n -> RunOutcomes]

ValidateNext ==
    \/ \E args \in ValidateArgs, kubeconfig, kubectlOk \in BOOLEAN :
          ValidateMain(args, kubeconfig, kubectlOk)
    \/ \E outs \in Tuples(5), nodes \in NodeLists : test_cluster_basics(outs, nodes)
    \/ \E installed, secret \in BOOLEAN, outs \in Tuples(5) :
          test_argocd(installed, outs, secret)
    \/ \E installed, top \in BOOLEAN, outs \in Tuples(2) :
          test_metrics_server(installed, outs, top)
    \/ \E dns \in RunOutcomes, failAt \in 0..4, ips, ping \in BOOLEAN :
          test_networking(dns, failAt, ips, ping)
    \/ \E storageclass \in RunOutcomes, kubectlOk, bound \in BOOLEAN :
          test_storage(storageclass, kubectlOk, bound)
    \/ \E applied \in SUBSET {"test-lb-service", "test-lb-deployment"}, external \in BOOLEAN :
          test_load_balancer(applied, external)
    \/ \E failAt \in 0..2, curl \in BOOLEAN : test_port_forwarding(failAt, curl)
    \/ \E kubectlOk \in BOOLEAN : show_test_summary(kubectlOk)

\* ------------------------------------------------------------ teardown-cluster.sh
TeardownArgs ==
    {<<>>, <<"--force">>, <<"--clean-all">>, <<"--force", "--clean-all">>,
     <<"--help">>, <<"--bogus">>}

\* the files and directories the scripts keep in the Terraform directory
TerraformFiles ==
    {"terraform.tfstate", "terraform.tfstate.backup", ".terraform", ".terraform.lock.hcl",
     "terraform.tfvars", "tfplan", "destroy.tfplan", "kubeconfig"}

\* the directory listings followed: state file and tfvars present or not, the
\* other files all present or all absent
TerraformDirs ==
    {S \cup T : S \in SUBSET {"terraform.tfstate", "terraform.tfvars"},
                T \in {{}, TerraformFiles \ {"terraform.tfstate", "terraform.tfvars"}}}

\* the default of variable cluster_name, and another cluster of the machine
DefaultCluster == "currency-converter"

ClusterNames == {DefaultCluster, "dev"}

\* one keypress read by read -n 1
Replies == {"y", "Y", "n", ""}

\* [[ $REPLY =~ ^[Yy]$ ]]
Yes(reply) == reply \in {"y", "Y"}

\* the script before main: FORCE=false, CLEAN_ALL=false
TeardownIdle ==
    [pc |-> "main", FORCE |-> FALSE, CLEAN_ALL |-> FALSE,
     files |-> {}, resources |-> FALSE, tfvarsCluster |-> DefaultCluster, clusters |-> {},
     via |-> "none", prompts |-> 0, confirmed |-> FALSE, removed |-> {},
     summary |-> FALSE, exit |-> -1]

RECURSIVE ParseTeardownArgs(_, _)
\* the while/case loop of main
ParseTeardownArgs(t, args) ==
    IF args = <<>> THEN t
    ELSE IF Head(args) = "--force"
    THEN ParseTeardownArgs([t EXCEPT !.FORCE = TRUE], Tail(args))
    ELSE IF Head(args) = "--clean-all"
    THEN ParseTeardownArgs([t EXCEPT !.CLEAN_ALL = TRUE], Tail(args))
    ELSE IF Head(args) \in {"-h", "--help"} THEN Exit(t, 0)
    ELSE Exit(t, 1)

check_terraform_state(t) == "terraform.tfstate" \in t.files /\ t.resources

\* kind delete cluster --name for every name of names
KindDelete(t, names) ==
    [t EXCEPT !.clusters = @ \ names,
              !.removed = @ \cup {[target |-> n, confirmed |-> t.confirmed] :
                                    n \in names \cap t.clusters}]

\* a confirmation prompt answered with reply
Prompt(t, reply) ==
    [t EXCEPT !.prompts = @ + 1, !.confirmed = @ \/ Yes(reply)]

\* main up to the choice between Terraform and manual destruction, on the
\* directory listing, state and clusters the script finds
TeardownMain(args, files, resources, tfvarsCluster, clusters) ==
    /\ teardown.pc = "main"
    /\ resources => "terraform.tfstate" \in files
    /\ "terraform.tfvars" \notin files => tfvarsCluster = DefaultCluster
    /\ LET t == ParseTeardownArgs(
                   [teardown EXCEPT !.files = files, !.resources = resources,
                                    !.tfvarsCluster = tfvarsCluster,
                                    !.clusters = clusters], args) IN
       teardown' =
         IF t.pc = "exited" THEN t
         ELSE IF check_terraform_state(t)
         THEN [t EXCEPT !.pc = "terraform plan", !.via = "terraform"]
         ELSE [t EXCEPT !.pc = "force_destroy", !.via = "manual"]
    /\ UNCHANGED TeardownRest

\* destroy_with_terraform: terraform plan -destroy -out=destroy.tfplan
TerraformPlanDestroy(ok) ==
    /\ teardown.pc = "terraform plan"
    /\ teardown' =
         IF ~ok THEN Exit(teardown, 1)
         ELSE [teardown EXCEPT !.files = @ \cup {"destroy.tfplan"},
                               !.pc = IF teardown.FORCE THEN "terraform apply"
                                      ELSE "confirm destroy"]
    /\ UNCHANGED TeardownRest

\* destroy_with_terraform: 'Are you sure you want to destroy the infrastructure?'
ConfirmDestroy(reply) ==
    /\ teardown.pc = "confirm destroy"
    /\ LET t == Prompt(teardown, reply) IN
       teardown' =
         IF ~Yes(reply)
         THEN Exit([t EXCEPT !.files = @ \ {"destroy.tfplan"}], 0)
         ELSE [t EXCEPT !.pc = "terraform apply"]
    /\ UNCHANGED TeardownRest

\* destroy_with_terraform: terraform apply destroy.tfplan
TerraformApplyDestroy(ok) ==
    /\ teardown.pc = "terraform apply"
    /\ teardown' =
         IF ok
         THEN [teardown EXCEPT
                 !.clusters = @ \ {teardown.tfvarsCluster},
                 !.removed = @ \cup {[target |-> "terraform", confirmed |-> teardown.confirmed]},
                 !.resources = FALSE,
                 !.files = (@ \cup {"terraform.tfstate", "terraform.tfstate.backup"})
                             \ {"destroy.tfplan"},
                 !.pc = "cleanup_local_files"]
         ELSE [teardown EXCEPT !.pc = "check_orphaned_clusters"]
    /\ UNCHANGED TeardownRest

\* force_destroy up to its call of check_orphaned_clusters; the name comes
\* from terraform.tfvars when the file exists
force_destroy ==
    /\ teardown.pc = "force_destroy"
    /\ LET cluster_name == IF "terraform.tfvars" \in teardown.files
                           THEN teardown.tfvarsCluster ELSE DefaultCluster IN
       teardown' = [KindDelete(teardown, {cluster_name})
                    EXCEPT !.pc = "check_orphaned_clusters"]
    /\ UNCHANGED TeardownRest

\* check_orphaned_clusters, and the rm -f destroy.tfplan that follows it in
\* destroy_with_terraform
check_orphaned_clusters(reply) ==
    /\ teardown.pc = "check_orphaned_clusters"
    /\ LET t == IF teardown.clusters = {} THEN teardown
                ELSE IF teardown.FORCE THEN KindDelete(teardown, teardown.clusters)
                ELSE IF Yes(reply)
                THEN KindDelete(Prompt(teardown, reply), teardown.clusters)
                ELSE Prompt(teardown, reply) IN
       teardown' =
         [t EXCEPT !.files = IF t.via = "terraform" THEN @ \ {"destroy.tfplan"} ELSE @,
                   !.pc = "cleanup_local_files"]
    /\ UNCHANGED TeardownRest

cleanup_local_files ==
    /\ teardown.pc = "cleanup_local_files"
    /\ teardown' =
         [teardown EXCEPT
            !.files = (@ \ {"kubeconfig", "tfplan", "destroy.tfplan", "terraform.tfvars"})
                        \ (IF teardown.CLEAN_ALL
                            THEN {".terraform", "terraform.tfstate.backup", ".terraform.lock.hcl"}
                            ELSE {}),
            !.pc = "verify_cleanup"]
    /\ UNCHANGED TeardownRest

\* verify_cleanup: remaining clusters are only listed; under --force every
\* container labelled io.x-k8s.kind.cluster, that is the nodes of every Kind
\* cluster of the machine, is removed with docker rm -f
verify_cleanup(t) ==
    IF t.FORCE THEN KindDelete(t, t.clusters) ELSE t

\* verify_cleanup, display_summary and the end of main
display_summary ==
    /\ teardown.pc = "verify_cleanup"
    /\ teardown' = Exit([verify_cleanup(teardown) EXCEPT !.summary = TRUE], 0)
    /\ UNCHANGED TeardownRest

TeardownNext ==
    \/ \E args \in TeardownArgs, files \in TerraformDirs, resources \in BOOLEAN,
          tfvarsCluster \in ClusterNames, clusters \in SUBSET ClusterNames :
          TeardownMain(args, files, resources, tfvarsCluster, clusters)
    \/ \E ok \in BOOLEAN : TerraformPlanDestroy(ok)
    \/ \E reply \in Replies : ConfirmDestroy(reply)
    \/ \E ok \in BOOLEAN : TerraformApplyDestroy(ok)
    \/ force_destroy
    \/ \E reply \in Replies : check_orphaned_clusters(reply)
    \/ cleanup_local_files
    \/ display_summary

\* ------------------------------------------------------------ setup-cluster.sh
SetupArgs ==
    {<<>>, <<"--force-recreate">>, <<"--cluster-name", "dev">>,
     <<"--cluster-name", "dev", "--force-recreate">>, <<"--skip-argocd", "--skip-metrics">>,
     <<"--help">>, <<"--bogus">>}

\* the script before main: CLUSTER_NAME="currency-converter", FORCE_RECREATE=false
SetupIdle ==
    [pc |-> "main", CLUSTER_NAME |-> DefaultCluster, FORCE_RECREATE |-> FALSE,
     found |-> {}, clusters |-> {}, prompts |-> 0, declined |-> FALSE,
     deleted |-> {}, ran |-> {}, failed |-> "none", exit |-> -1]

RECURSIVE ParseSetupArgs(_, _)
\* the while/case loop of main
ParseSetupArgs(u, args) ==
    IF args = <<>> THEN u
    ELSE IF Head(args) = "--cluster-name"
    THEN ParseSetupArgs([u EXCEPT !.CLUSTER_NAME = args[2]], Tail(Tail(args)))
    ELSE IF Head(args) \in {"--skip-argocd", "--skip-metrics"}
    THEN ParseSetupArgs(u, Tail(args))
    ELSE IF Head(args) = "--force-recreate"
    THEN ParseSetupArgs([u EXCEPT !.FORCE_RECREATE = TRUE], Tail(args))
    ELSE IF Head(args) \in {"-h", "--help"} THEN Exit(u, 0)
    ELSE Exit(u, 1)

\* a command run under set -e: a failing one ends the script with status 1
Run(u, command, ok) ==
    IF ok THEN [u EXCEPT !.ran = @ \cup {command}]
    ELSE Exit([u EXCEPT !.ran = @ \cup {command}, !.failed = command], 1)

\* kind delete cluster --name "$CLUSTER_NAME" inside check_existing_cluster,
\* where set -e is off: a failing delete leaves the cluster and goes on
DeleteExisting(u, reply, ok) ==
    [u EXCEPT !.clusters = IF ok THEN @ \ {u.CLUSTER_NAME} ELSE @,
              !.deleted = @ \cup {[name |-> u.CLUSTER_NAME, force |-> u.FORCE_RECREATE,
                                    reply |-> reply]}]

\* main up to check_existing_cluster: arguments and check_prerequisites, on
\* the clusters the machine has
SetupMain(args, clusters, prerequisites) ==
    /\ setup.pc = "main"
    /\ LET u == ParseSetupArgs([setup EXCEPT !.found = clusters, !.clusters = clusters], args) IN
       setup' =
         IF u.pc = "exited" THEN u
         ELSE IF ~prerequisites THEN Exit(u, 1)
         ELSE [u EXCEPT !.pc = "check_existing_cluster"]
    /\ UNCHANGED SetupRest

check_existing_cluster_NoPrompt(reply, ok) ==
    /\ setup.pc = "check_existing_cluster"
    /\ setup' =
         IF setup.CLUSTER_NAME \notin setup.clusters
         THEN [setup EXCEPT !.pc = "init_terraform"]
         ELSE [DeleteExisting(setup, "", ok) EXCEPT !.pc = "init_terraform"]
    /\ UNCHANGED SetupRest

check_existing_cluster(reply, ok) ==
    /\ setup.pc = "check_existing_cluster"
    /\ setup' =
         IF setup.CLUSTER_NAME \notin setup.clusters
         THEN [setup EXCEPT !.pc = "init_terraform"]
         ELSE IF setup.FORCE_RECREATE
         THEN [DeleteExisting(setup, "", ok) EXCEPT !.pc = "init_terraform"]
         ELSE IF Yes(reply)
         THEN [DeleteExisting(setup, reply, ok)
               EXCEPT !.prompts = @ + 1, !.pc = "init_terraform"]
         ELSE [setup EXCEPT !.prompts = @ + 1, !.declined = TRUE,
                            !.pc = "display_cluster_info"]
    /\ UNCHANGED SetupRest

init_terraform(ok) ==
    /\ setup.pc = "init_terraform"
    /\ setup' = LET u == Run(setup, "terraform init", ok) IN
                IF u.pc = "exited" THEN u ELSE [u EXCEPT !.pc = "create_cluster"]
    /\ UNCHANGED SetupRest

\* create_cluster: terraform.tfvars, terraform plan, terraform apply
create_cluster(planOk, applyOk) ==
    /\ setup.pc = "create_cluster"
    /\ setup' =
         LET u == Run(setup, "terraform plan", planOk) IN
         IF u.pc = "exited" THEN u
         ELSE LET w == Run(u, "terraform apply", applyOk) IN
              IF w.pc = "exited" THEN w
              ELSE [w EXCEPT !.clusters = @ \cup {setup.CLUSTER_NAME},
                             !.pc = "configure_kubectl"]
    /\ UNCHANGED SetupRest

\* configure_kubectl and validate_cluster
validate_cluster(ok) ==
    /\ setup.pc = "configure_kubectl"
    /\ setup' = LET u == Run(setup, "kubectl", ok) IN
                IF u.pc = "exited" THEN u ELSE [u EXCEPT !.pc = "display_cluster_info"]
    /\ UNCHANGED SetupRest

\* display_cluster_info, with its terraform output, and the end of main:
\* exit 0 after a declined prompt, the success line otherwise
SetupDisplayInfo(ok) ==
    /\ setup.pc = "display_cluster_info"
    /\ setup' = LET u == Run(setup, "terraform output", ok) IN
                IF u.pc = "exited" THEN u ELSE Exit(u, 0)
    /\ UNCHANGED SetupRest

SetupNext ==
    \/ \E args \in SetupArgs, clusters \in SUBSET ClusterNames, prerequisites \in BOOLEAN :
          SetupMain(args, clusters, prerequisites)
    \/ \E reply \in Replies, ok \in BOOLEAN : check_existing_cluster(reply, ok)
    \/ \E ok \in BOOLEAN : init_terraform(ok)
    \/ \E planOk, applyOk \in BOOLEAN : create_cluster(planOk, applyOk)
    \/ \E ok \in BOOLEAN : validate_cluster(ok)
    \/ \E ok \in BOOLEAN : SetupDisplayInfo(ok)

\* ------------------------------------------------------------ CI runner
\* the first argument of the runner; anything unlisted runs the whole pipeline
Modes == {"all", "setup", "quality", "unit", "docker", "integration", "helm", "quick", "nightly"}

\* the functions main calls in each mode, in order
Stages(mode) ==
    CASE mode = "setup" -> <<"setup_environment">>
      [] mode = "quality" -> <<"setup_environment", "run_code_quality">>
      [] mode = "unit" -> <<"setup_environment", "run_unit_tests">>
      [] mode = "docker" -> <<"build_docker_image", "test_docker_container">>
      [] mode = "integration" ->
           <<"setup_environment", "build_docker_image", "run_integration_tests">>
      [] mode = "helm" -> <<"test_helm_chart">>
      [] mode = "quick" -> <<"setup_environment", "run_unit_tests">>
      [] OTHER -> <<"setup_environment", "run_code_quality", "run_unit_tests",
                    "build_docker_image", "test_docker_container",
                    "run_integration_tests", "test_helm_chart", "generate_reports">>

\* whether the mode runs the complete pipeline: the "all"|* branch
Complete(mode) ==
    mode \notin {"setup", "quality", "unit", "docker", "integration", "helm", "quick"}

\* the most /health probes of the readiness wait
max_attempts == 30

\* the runner before main
CiIdle ==
    [pc |-> "main", mode |-> "all", todo |-> <<>>, ran |-> <<>>,
     container |-> "none", firstReady |-> 0, probes |-> 0, slept |-> 0,
     endpointTests |-> 0, passedLine |-> FALSE, exit |-> -1]

\* the trap on EXIT: the container is stopped and removed if docker ps, which
\* lists running containers only, shows it
cleanup(c) ==
    IF c.container = "running" THEN [c EXCEPT !.container = "none"] ELSE c

\* outcomes with which a stage function returns 0
Succeeds(outcome) == outcome \in {"passed", "skipped"}

StageDone_Continue(c, stage, outcome) ==
    LET d == [c EXCEPT !.ran = Append(@, [stage |-> stage, outcome |-> outcome]),
                       !.todo = Tail(@)] IN
    IF d.todo # <<>> THEN d
    ELSE Exit(cleanup([d EXCEPT !.passedLine = Complete(c.mode)]), 0)

\* a stage function has returned: a non-zero return ends the script with
\* status 1, through the if ! ... exit 1 of main or through set -e; after the
\* last stage of the complete pipeline the passed line is printed
StageDone(c, stage, outcome) ==
    LET d == [c EXCEPT !.ran = Append(@, [stage |-> stage, outcome |-> outcome]),
                       !.todo = Tail(@)] IN
    IF ~Succeeds(outcome) THEN Exit(cleanup(d), 1)
    ELSE IF d.todo # <<>> THEN d
    ELSE Exit(cleanup([d EXCEPT !.passedLine = Complete(c.mode)]), 0)

\* stage is the function main calls next
AtStage(stage) == ci.pc = "running" /\ ci.todo # <<>> /\ Head(ci.todo) = stage

StageOutcomes == {"passed", "failed"}

\* main: run_mode="${1:-all}" and the case on it
CiMain(mode) ==
    /\ ci.pc = "main"
    /\ ci' = [ci EXCEPT !.pc = "running", !.mode = mode, !.todo = Stages(mode)]
    /\ UNCHANGED CiRest

setup_environment(outcome) ==
    /\ AtStage("setup_environment")
    /\ ci' = StageDone(ci, "setup_environment", outcome)
    /\ UNCHANGED CiRest

run_code_quality(outcome) ==
    /\ AtStage("run_code_quality")
    /\ ci' = StageDone(ci, "run_code_quality", outcome)
    /\ UNCHANGED CiRest

run_unit_tests(outcome) ==
    /\ AtStage("run_unit_tests")
    /\ ci' = StageDone(ci, "run_unit_tests", outcome)
    /\ UNCHANGED CiRest

build_docker_image(outcome) ==
    /\ AtStage("build_docker_image")
    /\ ci' = StageDone(ci, "build_docker_image", outcome)
    /\ UNCHANGED CiRest

\* sleep 2 between two probes, in seconds
ProbePause == 2

RECURSIVE ReadinessWait_NoLimit(_, _, _)
ReadinessWait_NoLimit(probe, readyAt, slept) ==
    IF probe > max_attempts
    THEN [probes |-> probe - 1, slept |-> slept, ready |-> TRUE]
    ELSE IF probe = readyAt
    THEN [probes |-> probe, slept |-> slept, ready |-> TRUE]
    ELSE ReadinessWait_NoLimit(probe + 1, readyAt, slept + ProbePause)

RECURSIVE ReadinessWait(_, _, _)
\* the while loop of test_docker_container from probe number probe (attempt) on;
\* probe readyAt is the first that succeeds. ready: the function goes on to
\* the endpoint tests, otherwise it has returned 1
ReadinessWait(probe, readyAt, slept) ==
    IF probe > max_attempts
    THEN [probes |-> probe - 1, slept |-> slept, ready |-> TRUE]
    ELSE IF probe = readyAt
    THEN [probes |-> probe, slept |-> slept, ready |-> TRUE]
    ELSE IF probe = max_attempts
    THEN [probes |-> probe, slept |-> slept, ready |-> FALSE]
    ELSE ReadinessWait(probe + 1, readyAt, slept + ProbePause)

\* test_docker_container: docker run, the readiness wait whose probe number
\* readyAt is the first to succeed (max_attempts + 1: none does), then the
\* three endpoint tests; alive: the container is still running when the
\* function returns
test_docker_container(started, alive, readyAt, health, frontend, convert) ==
    /\ AtStage("test_docker_container")
    /\ LET wait == ReadinessWait(1, readyAt, 0) IN
       ci' =
         IF ~started THEN StageDone(ci, "test_docker_container", "not started")
         ELSE StageDone([ci EXCEPT !.container = IF alive THEN "running" ELSE "exited",
                                   !.firstReady = readyAt,
                                   !.probes = wait.probes,
                                   !.slept = wait.slept,
                                   !.endpointTests = IF ~wait.ready THEN 0
                                                     ELSE IF ~health THEN 1
                                                     ELSE IF ~frontend THEN 2
                                                     ELSE 3],
                        "test_docker_container",
                        IF ~wait.ready THEN "not ready"
                        ELSE IF ~health THEN "health failed"
                        ELSE IF ~frontend THEN "frontend failed"
                        ELSE IF ~convert THEN "convert failed"
                        ELSE "passed")
    /\ UNCHANGED CiRest

run_integration_tests(outcome) ==
    /\ AtStage("run_integration_tests")
    /\ ci' = StageDone(ci, "run_integration_tests", outcome)
    /\ UNCHANGED CiRest

test_helm_chart(helm, lint, template) ==
    /\ AtStage("test_helm_chart")
    /\ ci' = StageDone(ci, "test_helm_chart",
                       IF ~helm THEN "skipped"
                       ELSE IF ~lint THEN "lint failed"
                       ELSE IF ~template THEN "template failed"
                       ELSE "passed")
    /\ UNCHANGED CiRest

generate_reports(outcome) ==
    /\ AtStage("generate_reports")
    /\ ci' = StageDone(ci, "generate_reports", outcome)
    /\ UNCHANGED CiRest

CiNext ==
    \/ \E mode \in Modes : CiMain(mode)
    \/ \E outcome \in StageOutcomes : setup_environment(outcome)
    \/ \E outcome \in StageOutcomes : run_code_quality(outcome)
    \/ \E outcome \in StageOutcomes : run_unit_tests(outcome)
    \/ \E outcome \in StageOutcomes : build_docker_image(outcome)
    \/ \E started, alive, health, frontend, convert \in BOOLEAN,
          readyAt \in 1..(max_attempts + 1) :
          test_docker_container(started, alive, readyAt, health, frontend, convert)
    \/ \E outcome \in StageOutcomes : run_integration_tests(outcome)
    \/ \E helm, lint, template \in BOOLEAN : test_helm_chart(helm, lint, template)
    \/ \E outcome \in StageOutcomes : generate_reports(outcome)

\* ------------------------------------------------------------ actions
Init ==
    /\ retryConfig \in [MAX_ATTEMPTS : 1..MaxAttemptsCfg, DELAY : {DELAY}]
    /\ op = "none"
    /\ options = [signal |-> "none", method |-> "GET"]
    /\ pc = "idle"
    /\ attempt = 0
    /\ frames = <<>>
    /\ fetchInit = [signal |-> "none", method |-> "GET"]
    /\ timers = {}
    /\ callerAborted = FALSE
    /\ settled = [kind |-> "none", response |-> NoResponse, error |-> NoError]
    /\ result = [Pending EXCEPT !.state = "none"]
    /\ now = 0
    /\ starts = <<>>
    /\ waits = <<>>
    /\ errlog = <<>>
    /\ ends = <<>>
    /\ cancelledAt = -1
    /\ input = NoInput
    /\ pair = PairIdle
    /\ ui = UiReady
    /\ validate = ValidateIdle
    /\ teardown = TeardownIdle
    /\ setup = SetupIdle
    /\ ci = CiIdle
    /\ healthCheck = HealthReady

\* a caller invokes makeRequest itself, with or without a signal of its own
CallMakeRequest(sig) ==
    /\ pc = "idle"
    /\ op' = "makeRequest"
    /\ options' = [signal |-> sig, method |-> "GET"]
    /\ input' = NoInput
    /\ settled' = [settled EXCEPT !.kind = "pending"]
    /\ result' = Pending
    /\ StartAttempt(1, now, timers, options')
    /\ UNCHANGED <<retryConfig, frames, callerAborted, now, waits, errlog, ends, cancelledAt>>
    /\ UNCHANGED others

\* checkHealth() and getApiInfo(), up to the await of makeRequest(url)
CallSimple(o) ==
    /\ pc = "idle"
    /\ op' = o
    /\ options' = [signal |-> "none", method |-> "GET"]
    /\ input' = NoInput
    /\ settled' = [settled EXCEPT !.kind = "pending"]
    /\ result' = Pending
    /\ StartAttempt(1, now, timers, options')
    /\ UNCHANGED <<retryConfig, frames, callerAborted, now, waits, errlog, ends, cancelledAt>>
    /\ UNCHANGED others

\* convertCurrency(conversionData), up to the await of makeRequest or to the
\* catch of a validation error
ConvertCurrency(d) ==
    /\ pc = "idle"
    /\ op' = "convertCurrency"
    /\ input' = d
    /\ IF ValidationError(d) # NoError
       THEN /\ result' = WrapperCatch("convertCurrency", ValidationError(d))
            /\ pc' = "done"
            /\ UNCHANGED <<options, settled, attempt, fetchInit, timers, starts>>
       ELSE /\ options' = [signal |-> "none", method |-> "POST"]
            /\ settled' = [settled EXCEPT !.kind = "pending"]
            /\ result' = Pending
            /\ StartAttempt(1, now, timers, options')
    /\ UNCHANGED <<retryConfig, frames, callerAborted, now, waits, errlog, ends, cancelledAt>>
    /\ UNCHANGED others

\* getExchangeRates(baseCurrency): baseCurrency.toUpperCase() throws on null
GetExchangeRates(base) ==
    /\ pc = "idle"
    /\ op' = "getExchangeRates"
    /\ input' = [NoInput EXCEPT !.from = base]
    /\ IF base = "null"
       THEN /\ result' = WrapperCatch("getExchangeRates",
                            [name |-> "TypeError", message |-> MsgNotAFunction])
            /\ pc' = "done"
            /\ UNCHANGED <<options, settled, attempt, fetchInit, timers, starts>>
       ELSE /\ options' = [signal |-> "none", method |-> "GET"]
            /\ settled' = [settled EXCEPT !.kind = "pending"]
            /\ result' = Pending
            /\ StartAttempt(1, now, timers, options')
    /\ UNCHANGED <<retryConfig, frames, callerAborted, now, waits, errlog, ends, cancelledAt>>
    /\ UNCHANGED others

\* the server answers within the timeout: clearTimeout, then the ok test
FetchResolves(status, lat) ==
    /\ pc = "fetch"
    /\ \A x \in CurrentTimers : now + lat < x.due
    /\ now' = now + lat
    /\ LET tm == ClearTimeout(Expire(timers, now'), attempt)
           response == [status |-> status, seq |-> attempt] IN
       IF ResponseOk(status)
       THEN /\ settled' = [kind |-> "return", response |-> response, error |-> NoError]
            /\ frames' = <<>>
            /\ timers' = tm
            /\ IF op \in Wrappers
               THEN pc' = "json" /\ UNCHANGED result
               ELSE pc' = "done" /\ result' = Fulfilled(TRUE, <<>>, NoData, "")
            /\ ends' = Append(ends, now')
            /\ UNCHANGED <<waits, errlog>>
       ELSE Catch(HttpError(status), now', tm)
    /\ UNCHANGED <<retryConfig, op, options, attempt, fetchInit, callerAborted, starts,
                   cancelledAt, input>>
    /\ UNCHANGED others

\* fetch rejects on a connection-level failure: the timeout timer stays pending
FetchRejects(error, lat) ==
    /\ pc = "fetch"
    /\ \A x \in CurrentTimers : now + lat < x.due
    /\ now' = now + lat
    /\ Catch(error, now', Expire(timers, now'))
    /\ UNCHANGED <<retryConfig, op, options, attempt, fetchInit, callerAborted, starts,
                   cancelledAt, input>>
    /\ UNCHANGED others

\* the timeout timer of the attempt in flight fires: controller.abort()
TimeoutFires ==
    /\ pc = "fetch"
    /\ \E x \in CurrentTimers :
        /\ now' = x.due
        /\ IF fetchInit.signal = "controller"
           THEN Catch(AbortError, now', Expire(timers, now'))
           ELSE /\ timers' = Expire(timers, now')
                /\ UNCHANGED <<pc, frames, waits, errlog, ends, settled, result>>
    /\ UNCHANGED <<retryConfig, op, options, attempt, fetchInit, callerAborted, starts,
                   cancelledAt, input>>
    /\ UNCHANGED others

\* the sleep of the backoff resolves: return this.makeRequest(url, options, attempt + 1)
SleepElapses ==
    /\ pc = "sleep"
    /\ \E x \in {y \in timers : y.kind = "sleep"} :
        /\ now' = x.due
        /\ StartAttempt(NextAttempt(attempt), now', Expire(timers, now'), options)
    /\ UNCHANGED <<retryConfig, op, options, frames, callerAborted, settled, result,
                   waits, errlog, ends, cancelledAt, input>>
    /\ UNCHANGED others

\* the caller aborts the signal it passed in options
CallerAbort ==
    /\ pc \in {"fetch", "sleep"}
    /\ options.signal = "caller"
    /\ ~callerAborted
    /\ callerAborted' = TRUE
    /\ cancelledAt' = Len(starts)
    /\ IF pc = "fetch" /\ fetchInit.signal = "caller"
       THEN Catch(AbortError, now, timers)
       ELSE UNCHANGED <<pc, frames, waits, errlog, ends, settled, result, timers>>
    /\ UNCHANGED <<retryConfig, op, options, attempt, fetchInit, now, starts, input>>
    /\ UNCHANGED others

\* the bodies response.json() can yield
Bodies == {"success", "failure", "invalid"}

\* await response.json() settles, and the rest of the try block runs
JsonSettles(body) ==
    /\ pc = "json"
    /\ pc' = "done"
    /\ LET data == [success |-> body = "success", seq |-> settled.response.seq] IN
       result' =
          IF body = "invalid"
          THEN WrapperCatch(op, [name |-> "SyntaxError", message |-> MsgUnexpectedToken])
          ELSE IF op = "convertCurrency" /\ ~data.success
          THEN WrapperCatch(op, [name |-> "Error", message |-> MsgConversionFailed])
          ELSE WrapperSuccess(op, data)
    /\ UNCHANGED <<retryConfig, op, options, attempt, frames, fetchInit, timers,
                   callerAborted, settled, now, starts, waits, errlog, ends,
                   cancelledAt, input>>
    /\ UNCHANGED others

Latencies == {0, Latency}

Next ==
    \/ \E sig \in {"none", "caller"} : CallMakeRequest(sig)
    \/ \E o \in {"checkHealth", "getApiInfo"} : CallSimple(o)
    \/ \E d \in ConversionInputs : ConvertCurrency(d)
    \/ \E b \in BaseCurrencies : GetExchangeRates(b)
    \/ \E st \in Statuses, lat \in Latencies : FetchResolves(st, lat)
    \/ \E e \in NetworkErrors, lat \in Latencies : FetchRejects(e, lat)
    \/ TimeoutFires
    \/ SleepElapses
    \/ CallerAbort
    \/ \E b \in Bodies : JsonSettles(b)

Spec == Init /\ [][Next]_vars

\* timers fire: the timeout of the attempt in flight and the sleep of the backoff;
\* the network is not assumed to answer
FairSpec == Spec /\ WF_vars(TimeoutFires) /\ WF_vars(SleepElapses)

\* the page driven by the user and by the settling of its conversions
UiSpec == Init /\ [][UiNext]_vars

\* one run of validate-cluster.sh against a cluster in any condition
ValidateSpec == Init /\ [][ValidateNext]_vars

\* one run of teardown-cluster.sh in any Terraform directory
TeardownSpec == Init /\ [][TeardownNext]_vars

\* one run of setup-cluster.sh on a machine with any clusters
SetupSpec == Init /\ [][SetupNext]_vars

\* one run of the CI runner in any mode
CiSpec == Init /\ [][CiNext]_vars

\* the health checks of the page, started and settled in any order
HealthSpec == Init /\ [][HealthNext]_vars

\* two calls interleaved in any order on the shared instance
PairSpec == Init /\ [][PairNext]_vars

\* ============================================================ properties
Done == pc = "done"
GaveUp == settled.kind = "throw"
Succeeded == settled.kind = "return"
Last(q) == q[Len(q)]

ClientErrors == {HttpError(st) : st \in Statuses \cap 400..499}
ServerErrors == {HttpError(st) : st \in Statuses \cap 500..599}
ConnectionErrors == NetworkErrors \cup {AbortError}

\* C1: one makeRequest call makes at most MAX_ATTEMPTS fetch attempts, and a
\* backoff wait (hence a retry) is started only after a failed attempt whose
\* index is strictly below MAX_ATTEMPTS.
C1_AttemptBound ==
    /\ Len(starts) <= retryConfig.MAX_ATTEMPTS
    /\ attempt <= retryConfig.MAX_ATTEMPTS
    /\ Len(waits) < retryConfig.MAX_ATTEMPTS
    /\ pc = "sleep" => attempt < retryConfig.MAX_ATTEMPTS

\* the bound is reached: MAX_ATTEMPTS = 3 attempts made, all failed, call gave up
C1_Witness ==
    /\ Done /\ GaveUp
    /\ retryConfig.MAX_ATTEMPTS = MAX_ATTEMPTS
    /\ Len(starts) = MAX_ATTEMPTS
    /\ Len(errlog) = MAX_ATTEMPTS

\* C2: when the first attempt is answered with a status in 400..499 the call
\* makes exactly one attempt, waits no backoff delay and fails.
C2_ClientErrorNeverRetried ==
    (Len(errlog) >= 1 /\ errlog[1] \in ClientErrors) =>
        /\ Done /\ GaveUp
        /\ Len(starts) = 1
        /\ waits = <<>>

\* C3: when every attempt of a call that gave up failed with a status in
\* 500..599 the call made exactly MAX_ATTEMPTS attempts; the retry decision
\* accepts every status in 500..599.
C3_ServerErrorsRetriedToBound ==
    /\ (GaveUp /\ \A i \in 1..Len(errlog) : errlog[i] \in ServerErrors) =>
           /\ Len(starts) = retryConfig.MAX_ATTEMPTS
           /\ Len(errlog) = retryConfig.MAX_ATTEMPTS
    /\ (Len(errlog) >= 1 /\ Last(errlog) \in ServerErrors
                         /\ Len(errlog) < retryConfig.MAX_ATTEMPTS) => ~GaveUp
    /\ \A st \in 500..599 : shouldRetry(HttpError(st))

\* three attempts, each answered 5xx (500 and 503 both seen), then failure
C3_Witness ==
    /\ Done /\ GaveUp
    /\ retryConfig.MAX_ATTEMPTS = MAX_ATTEMPTS
    /\ Len(errlog) = MAX_ATTEMPTS
    /\ errlog[1] = HttpError(503)
    /\ errlog[2] = HttpError(500)
    /\ errlog[3] = HttpError(503)

\* C4: an attempt that ends in a connection-level rejection of fetch, whatever
\* its message, or in a timeout abort is retried while its index is below
\* MAX_ATTEMPTS: a call gives up on such an error only at the bound.
C4_ConnectionErrorsRetried ==
    (GaveUp /\ Last(errlog) \in ConnectionErrors) =>
        Len(starts) = retryConfig.MAX_ATTEMPTS

\* the errors the retry decision accepts
Transient(error) == shouldRetry(error)

\* C5: when attempt k succeeds after attempts 1..k-1 failed with transient
\* errors, the call has made exactly k attempts (k <= MAX_ATTEMPTS) and k-1
\* waits, it returns the response of attempt k, and once it has returned no
\* attempt and no wait is started.
C5_SuccessOnAttemptK ==
    /\ [](Succeeded =>
            LET k == settled.response.seq IN
            /\ k <= retryConfig.MAX_ATTEMPTS
            /\ Len(starts) = k
            /\ Len(errlog) = k - 1
            /\ Len(waits) = k - 1
            /\ \A i \in 1..(k - 1) : Transient(errlog[i])
            /\ attempt = k
            /\ pc \in {"json", "done"}
            /\ {x \in timers : x.kind = "sleep" \/ x.attempt = k} = {}
            /\ (result.state = "fulfilled" /\ result.success /\ op \in Wrappers)
                   => result.data.seq = k)
    /\ [][Succeeded => /\ settled' = settled
                       /\ starts' = starts
                       /\ waits' = waits
                       /\ attempt' = attempt
                       /\ pc' \notin {"fetch", "sleep"}]_vars

\* success on attempt 3 after two transient failures, handed to the caller
C5_Witness ==
    /\ Done /\ Succeeded
    /\ settled.response.seq = 3
    /\ Len(errlog) = 2
    /\ op = "convertCurrency"
    /\ result.success
    /\ result.data.seq = 3

\* C6: the wait after failed attempt k is DELAY * 2^(k-1) exactly, attempt k+1
\* starts when that wait has elapsed, and no wait follows the last failed
\* attempt; with MAX_ATTEMPTS = 3 and DELAY = 1000 the waits are 1000 and 2000
\* and instantly failing attempts start at 0, 1000 and 3000.
C6_BackoffSchedule ==
    /\ \A k \in 1..Len(waits) : waits[k] = DELAY * Pow(2, k - 1)
    /\ \A k \in 1..(Len(starts) - 1) : starts[k + 1] = ends[k] + waits[k]
    /\ pc = "sleep" =>
          {x.due : x \in {y \in timers : y.kind = "sleep"}} = {now + Last(waits)}
    /\ GaveUp => /\ Len(waits) = Len(starts) - 1
                 /\ {x \in timers : x.kind = "sleep"} = {}
                 /\ now = Last(ends)
    /\ (retryConfig.MAX_ATTEMPTS = 3 /\ Len(starts) = 3
                                      /\ \A k \in 1..2 : ends[k] = starts[k]) =>
           /\ waits = <<1000, 2000>>
           /\ starts = <<0, 1000, 3000>>

\* the scenario of the claim: three instantly failing attempts, then failure
C6_Witness ==
    /\ Done /\ GaveUp
    /\ retryConfig = [MAX_ATTEMPTS |-> 3, DELAY |-> 1000]
    /\ starts = <<0, 1000, 3000>>
    /\ ends = starts
    /\ now = 3000

\* C7: a makeRequest call that gives up rejects with the error of its final
\* attempt, and the caller-facing operation resolves to a failure result
\* carrying that error's message.
C7_LastErrorSurfaced ==
    GaveUp =>
        /\ settled.error = Last(errlog)
        /\ op \in Wrappers =>
              /\ result.state = "fulfilled"
              /\ ~result.success
              /\ result.error = Last(errlog).message
        /\ op = "makeRequest" =>
              /\ result.state = "rejected"
              /\ result.error = Last(errlog).message

\* retries exhausted with differing errors: the first attempt timed out, the
\* last was answered 503, and convertCurrency reports the 503
C7_Witness ==
    /\ Done /\ GaveUp
    /\ op = "convertCurrency"
    /\ Len(errlog) = 3
    /\ errlog[1] = AbortError
    /\ errlog[3] = HttpError(503)
    /\ result.error = HttpError(503).message

\* C8: checkHealth, convertCurrency, getExchangeRates and getApiInfo never
\* reject: once started their promise is pending or fulfilled, and when the
\* operation has ended it is fulfilled with a success result or with a result
\* whose success flag is false and that carries the error message.
C8_WrappersNeverReject ==
    op \in Wrappers =>
        /\ result.state \in {"pending", "fulfilled"}
        /\ Done <=> result.state = "fulfilled"
        /\ result.state = "fulfilled" =>
              \/ result.success /\ result.error = <<>>
              \/ ~result.success /\ result.error # <<>>

\* getExchangeRates resolved to a failure after the retries were exhausted
C8_Witness ==
    /\ Done /\ GaveUp
    /\ op = "getExchangeRates"
    /\ Len(starts) = MAX_ATTEMPTS
    /\ result.state = "fulfilled"
    /\ ~result.success
    /\ result.error = MsgFailedToFetch

C10_Terminates ==
    /\ (settled.kind = "pending") ~> (settled.kind \in {"return", "throw"})
    /\ [][attempt' # attempt => attempt' = attempt + 1]_vars
    /\ [][pc = "sleep" /\ pc' = "fetch" =>
             attempt' = attempt + 1 /\ Len(starts') = Len(starts) + 1]_vars
    /\ [](Len(starts) <= retryConfig.MAX_ATTEMPTS)

\* a call the network never answered: every attempt was ended by its timeout
\* timer, every wait by its sleep timer, and the call threw at the bound
C10_Witness ==
    /\ Done /\ GaveUp
    /\ Len(starts) = MAX_ATTEMPTS
    /\ \A i \in 1..MAX_ATTEMPTS : errlog[i] = AbortError
    /\ now = 3 * TIMEOUT + 3000

\* the state of one makeRequest call
MRState ==
    CASE settled.kind = "none" -> "Idle"
      [] settled.kind = "return" -> "Succeeded"
      [] settled.kind = "throw" -> "Failed"
      [] settled.kind = "pending" /\ pc = "fetch" -> "Attempting"
      [] OTHER -> "Retrying"

MRTransitions ==
    { <<"Idle", "Attempting">>, <<"Attempting", "Succeeded">>,
      <<"Attempting", "Retrying">>, <<"Attempting", "Failed">>,
      <<"Retrying", "Attempting">> }

\* C11: a makeRequest call moves Idle -> Attempting -> {Succeeded, Retrying,
\* Failed} and Retrying -> Attempting only; at most one fetch is in flight;
\* attempt k+1 starts only after attempt k has failed and its backoff wait has
\* fully elapsed; after Succeeded or Failed no attempt and no wait happens.
C11_StateMachine ==
    /\ [](/\ Len(starts) - Len(ends) \in {0, 1}
          /\ Len(starts) - Len(ends) = 1 <=> MRState = "Attempting"
          /\ MRState = "Retrying" <=> pc = "sleep")
    /\ [](\A k \in 1..(Len(starts) - 1) :
             /\ k <= Len(errlog)
             /\ waits[k] > 0
             /\ starts[k + 1] = ends[k] + waits[k])
    /\ [][MRState' # MRState => <<MRState, MRState'>> \in MRTransitions]_vars
    /\ [][(MRState = "Succeeded" \/ MRState = "Failed") =>
             (UNCHANGED <<settled, attempt, starts, ends, waits, errlog, now>>
              /\ pc' \notin {"fetch", "sleep"})]_vars

\* a call in its second backoff wait: two attempts failed, none in flight
C11_Witness ==
    /\ MRState = "Retrying"
    /\ Len(starts) = 2
    /\ Len(ends) = 2
    /\ Len(waits) = 2
    /\ now = ends[2]

\* how attempt i ended
EndedBy(i) ==
    IF i > Len(errlog) THEN "response"
    ELSE IF errlog[i] = AbortError THEN "timeout"
    ELSE IF errlog[i].name = "Error" THEN "response"
    ELSE "rejection"

\* C12: when an attempt has ended because a response was received (ok or
\* not) or because its timeout elapsed, no timeout timer of that attempt is
\* pending.
C12_TimerReleased ==
    \A i \in 1..Len(ends) :
        EndedBy(i) \in {"response", "timeout"} =>
            {x \in timers : x.kind = "timeout" /\ x.attempt = i} = {}

\* attempt 1 timed out, attempt 2 was answered 503, attempt 3 was answered 200:
\* no timer is left
C12_Witness ==
    /\ Succeeded
    /\ Len(ends) = 3
    /\ errlog = <<AbortError, HttpError(503)>>
    /\ timers = {}

\* the inputs C14 names: missing or zero amount, non-numeric or non-positive
\* amount, missing currency, identical currencies
InvalidConversion(d) ==
    \/ d.amount \in {"undefined", "''", "0", "NaN", "'abc'", "-5", "'0'"}
    \/ d.from = "undefined"
    \/ d.to = "undefined"
    \/ d.from = d.to

\* C14: convertCurrency called with an invalid input ends at once with a
\* failure result carrying the validation message, and makes no fetch attempt,
\* no wait and arms no timer.
C14_ValidationNeverFetches ==
    (op = "convertCurrency" /\ InvalidConversion(input)) =>
        /\ Done
        /\ settled.kind = "none"
        /\ starts = <<>>
        /\ waits = <<>>
        /\ timers = {}
        /\ result.state = "fulfilled"
        /\ ~result.success
        /\ result.error \in {MsgMissingParams, MsgPositive, MsgDifferent}

\* identical currencies with a valid amount: refused without a fetch
C14_Witness ==
    /\ op = "convertCurrency"
    /\ input = [amount |-> "100", from |-> "USD", to |-> "USD"]
    /\ Done
    /\ starts = <<>>
    /\ result.error = MsgDifferent

RECURSIVE AloneFrom(_, _, _, _)
\* one makeRequest call run by itself on the outcomes log[i..]: the fetches it
\* makes, the waits it sleeps and how it settles
AloneFrom(att, log, i, ws) ==
    IF i > Len(log)
    THEN [fetches |-> i - 1, waits |-> ws, settled |-> "pending"]
    ELSE IF log[i].kind = "response" /\ ResponseOk(log[i].status)
    THEN [fetches |-> i, waits |-> ws,
          settled |-> [kind |-> "return",
                       response |-> [status |-> log[i].status, seq |-> att],
                       error |-> NoError]]
    ELSE IF att < retryConfig.MAX_ATTEMPTS /\ shouldRetry(OutcomeError(log[i]))
    THEN AloneFrom(att + 1, log, i + 1, Append(ws, DELAY * Pow(2, att - 1)))
    ELSE [fetches |-> i, waits |-> ws,
          settled |-> [kind |-> "throw", response |-> NoResponse,
                       error |-> OutcomeError(log[i])]]

\* C13: whatever the interleaving of two calls on the shared apiService, each
\* call that has ended made the fetches, slept the waits and settled the way
\* it does when run alone on the network outcomes it saw, and a call still
\* running has slept the waits of that lone run so far.
C13_CallsIndependent ==
    \A c \in Calls :
        LET alone == AloneFrom(1, pair.log[c], 1, <<>>) IN
        /\ pair.pc[c] = "done" =>
              /\ alone.fetches = pair.fetches[c]
              /\ alone.fetches = Len(pair.log[c])
              /\ alone.waits = pair.waits[c]
              /\ alone.settled = pair.settled[c]
        /\ pair.pc[c] \in {"fetch", "sleep"} =>
              /\ alone.settled = "pending"
              /\ alone.waits = pair.waits[c]
              /\ pair.fetches[c] <= retryConfig.MAX_ATTEMPTS

\* both calls ended after overlapping: call 1 exhausted three attempts on 503,
\* call 2 succeeded on its second
C13_Witness ==
    /\ pair.pc[1] = "done" /\ pair.pc[2] = "done"
    /\ pair.fetches[1] = 3
    /\ pair.settled[1].kind = "throw"
    /\ pair.waits[1] = <<1000, 2000>>
    /\ pair.fetches[2] = 2
    /\ pair.settled[2].kind = "return"
    /\ pair.waits[2] = <<1000>>

\* the conversion that just ended did so with a failure result or an exception
EndedInFailure ==
    /\ ui.event = "settled"
    /\ ~ui.outcome.success \/ ShowConversionResultThrows(ui.outcome.data)

\* the message handleConversion hands to showError for result res
FailureMessage(res) ==
    IF res.success THEN MsgUnexpectedConversion
    ELSE IF res.error = "" THEN MsgConversionFallback ELSE res.error

\* C15 as stated: after a failed conversion every click on the retry button
\* starts a new conversion.
C15_RetryAlwaysStarts ==
    [][ui'.event = "retry" /\ ui' # ui => ui'.started = ui.started + 1]_vars

\* C15, amended: when a conversion ends with a failure result or an exception
\* the error section alone is on display with the failure message and the
\* page is no longer loading; a later click on the retry button starts a new
\* conversion exactly when the form still validates at the time of the click,
\* and otherwise only hides the sections.
C15_ErrorShownRetryRevalidates ==
    /\ [](EndedInFailure =>
            /\ ui.errorSection /\ ~ui.loadingSection /\ ~ui.resultSection
            /\ ui.errorMessage = FailureMessage(ui.outcome)
            /\ ~ui.isLoading /\ ui.awaiting = 0)
    /\ [][(ui'.event = "retry" /\ ui' # ui) =>
            (/\ ui.errorSection /\ ~ui.isLoading
             /\ ~ui'.errorSection /\ ~ui'.resultSection
             /\ IF IsValid(ui)
                THEN ui'.started = ui.started + 1 /\ ui'.awaiting = 1
                     /\ ui'.isLoading /\ ui'.loadingSection
                ELSE ui'.started = ui.started /\ ui'.awaiting = 0 /\ ~ui'.loadingSection)]_vars

\* a conversion ended with a 503 failure and the click on the retry button
\* has just started the second conversion
C15_Witness ==
    /\ ui.event = "retry"
    /\ ~ui.outcome.success
    /\ ui.errorMessage = "HTTP 503: Service Unavailable"
    /\ ui.started = 2
    /\ ui.awaiting = 1 /\ ui.loadingSection /\ ~ui.errorSection

\* C16: a run of validate-cluster.sh that reaches its summary exits 0 with
\* 'All tests passed' exactly when no check reported FAIL, so WARN and SKIP
\* results do not make it fail.
C16_ExitZeroIffNoFail ==
    (validate.pc = "exited" /\ validate.summary # "none") =>
        ((validate.exit = 0 /\ validate.summary = "All tests passed")
           <=> validate.reported["FAIL"] = 0)

\* C17: without --force every cluster deletion and every Terraform destroy of
\* teardown-cluster.sh comes after a confirmation prompt answered y; with
\* --force no prompt is shown.
C17_DestroyOnlyAfterConfirmation ==
    /\ ~teardown.FORCE => \A r \in teardown.removed : r.confirmed
    /\ teardown.FORCE => teardown.prompts = 0

\* C18: when teardown-cluster.sh --clean-all has run to its end, none of the
\* Terraform state, cache, plan and kubeconfig files is left in the Terraform
\* directory.
C18_CleanAllLeavesNothing ==
    (teardown.pc = "exited" /\ teardown.summary /\ teardown.CLEAN_ALL) =>
        teardown.files \cap TerraformFiles = {}

\* an existing cluster is deleted only under --force-recreate or after y
DeletedOnlyOnRequest ==
    /\ \A d \in setup.deleted :
          /\ d.name = setup.CLUSTER_NAME
          /\ d.name \in setup.found
          /\ d.force \/ Yes(d.reply)
    /\ setup.deleted = {} => setup.found \subseteq setup.clusters
    /\ setup.found \ {setup.CLUSTER_NAME} \subseteq setup.clusters

\* after a declined prompt nothing is deleted and Terraform init, plan and
\* apply are not run
DeclinedLeavesCluster ==
    setup.declined =>
        /\ setup.clusters = setup.found
        /\ setup.CLUSTER_NAME \in setup.clusters
        /\ setup.deleted = {}
        /\ setup.ran \cap {"terraform init", "terraform plan", "terraform apply"} = {}

\* C19 as stated: deletion only on request, and after a declined prompt the
\* cluster is untouched, Terraform does not run and the script exits 0.
C19_DeclineExitsZero ==
    /\ DeletedOnlyOnRequest
    /\ DeclinedLeavesCluster
    /\ (setup.declined /\ setup.pc = "exited") => setup.exit = 0

\* C19, amended: deletion only on request, and after a declined prompt the
\* cluster is untouched and Terraform init, plan and apply do not run; the
\* script then exits 0 when the terraform output of display_cluster_info
\* succeeds and with status 1 when it fails.
C19_DeclineKeepsCluster ==
    /\ DeletedOnlyOnRequest
    /\ DeclinedLeavesCluster
    /\ (setup.declined /\ setup.pc = "exited") =>
          /\ setup.ran = {"terraform output"}
          /\ setup.exit = (IF setup.failed = "none" THEN 0 ELSE 1)

\* the user declined for the existing default cluster and the script ended
C19_Witness ==
    /\ setup.declined /\ setup.pc = "exited" /\ setup.exit = 0
    /\ setup.prompts = 1
    /\ ~setup.FORCE_RECREATE
    /\ setup.clusters = {DefaultCluster, "dev"}

\* the order of the complete pipeline
PipelineOrder ==
    <<"setup_environment", "run_code_quality", "run_unit_tests", "build_docker_image",
      "test_docker_container", "run_integration_tests", "test_helm_chart",
      "generate_reports">>

\* the stages whose failure the claim is about
Blocking ==
    {"run_unit_tests", "build_docker_image", "test_docker_container",
     "run_integration_tests", "test_helm_chart"}

\* C20: in mode 'all' the stages run in the order setup, code quality, unit
\* tests, Docker build, container tests, integration tests, Helm tests,
\* reports; a failure of unit tests, Docker build, container tests,
\* integration tests or Helm tests is the last stage run and the exit status
\* is then non-zero; the passed line is printed only after all eight stages
\* ran and those five returned success.
C20_PipelineOrderAndFailStop ==
    (ci.pc # "main" /\ ci.mode = "all") =>
        /\ Len(ci.ran) <= Len(PipelineOrder)
        /\ \A i \in 1..Len(ci.ran) : ci.ran[i].stage = PipelineOrder[i]
        /\ \A i \in 1..Len(ci.ran) :
              (ci.ran[i].stage \in Blocking /\ ci.ran[i].outcome \notin {"passed", "skipped"}) =>
                  /\ i = Len(ci.ran)
                  /\ ci.pc = "exited" /\ ci.exit > 0
                  /\ ~ci.passedLine
        /\ ci.passedLine =>
              /\ Len(ci.ran) = Len(PipelineOrder)
              /\ \A i \in 1..Len(ci.ran) :
                    ci.ran[i].stage \in Blocking => ci.ran[i].outcome \in {"passed", "skipped"}
              /\ ci.pc = "exited" /\ ci.exit = 0

\* the complete pipeline stopped at a failed Helm lint, before the reports
C20_Witness ==
    /\ ci.mode = "all" /\ ci.pc = "exited" /\ ci.exit = 1
    /\ Len(ci.ran) = 7
    /\ ci.ran[7] = [stage |-> "test_helm_chart", outcome |-> "lint failed"]
    /\ ~ci.passedLine

\* C21: at most one conversion started by the page is in flight: isLoading
\* holds exactly while a handleConversion call is suspended at its await, no
\* submit, convert click, Enter press or retry click starts a conversion
\* while isLoading holds, and isLoading is false once a conversion has ended.
C21_OneConversionInFlight ==
    /\ [](/\ ui.awaiting \in {0, 1}
          /\ ui.isLoading <=> ui.awaiting = 1
          /\ ui.event = "settled" => ~ui.isLoading)
    /\ [][ui.isLoading => ui'.started = ui.started]_vars

\* the second conversion is loading and an Enter press during it was refused
C21_Witness ==
    /\ ui.started = 2 /\ ui.awaiting = 1 /\ ui.isLoading
    /\ ui.event = "enter" /\ ui.refused
    /\ ui.outcome.success

\* C22: once the most recently started health check has settled, the status
\* on display is its outcome, whatever checks were started before it.
C22_StatusFromLatestCheck ==
    LET latest == Len(healthCheck.checks) IN
    healthCheck.checks[latest].result # "pending" =>
        /\ healthCheck.apiHealthy = (healthCheck.checks[latest].result = "healthy")
        /\ healthCheck.apiStatus = (IF healthCheck.checks[latest].result = "healthy"
                               THEN "Connected" ELSE "Disconnected")

\* C23: when teardown-cluster.sh has printed its summary and exited 0, the
\* configured Kind cluster no longer exists.
C23_SummaryMeansClusterGone ==
    (teardown.pc = "exited" /\ teardown.summary /\ teardown.exit = 0) =>
        teardown.tfvarsCluster \notin teardown.clusters

\* C24: teardown-cluster.sh removes a Kind cluster other than the configured
\* one only after the user confirmed the removal at a prompt.
C24_OtherClustersKept ==
    \A r \in teardown.removed :
        r.target \notin {teardown.tfvarsCluster, "terraform"} => r.confirmed

\* C25: 'All nodes ready' is reported PASS only if every listed node has
\* status Ready; a list with a NotReady node is reported FAIL.
C25_AllNodesReadyPass ==
    /\ validate.allNodesReady = "PASS" =>
          \A i \in 1..Len(validate.nodes) : validate.nodes[i] = StatusReady
    /\ (\E i \in 1..Len(validate.nodes) : validate.nodes[i] = StatusNotReady) =>
          validate.allNodesReady = "FAIL"

\* C26: when validate-cluster.sh exits after running its tests, every test
\* resource it created has been deleted and the summary has been shown.
C26_TestResourcesDeleted ==
    (validate.pc = "exited" /\ validate.TESTS_PASSED + validate.TESTS_FAILED > 0) =>
        /\ validate.resources \cap TestResources = {}
        /\ validate.summary # "none"

\* C27: when the CI runner has exited, no container named
\* currency-converter-ci-test is left, running or stopped.
C27_NoContainerLeft ==
    ci.pc = "exited" => ci.container = "none"

\* the entries of ran for the container test
ContainerTest == {i \in 1..Len(ci.ran) : ci.ran[i].stage = "test_docker_container"}

\* C28: the readiness wait makes at most 30 probes with a pause of 2 seconds
\* after every failed probe but the last, stops at the first probe that
\* succeeds and goes on to the endpoint tests, and after 30 failed probes
\* returns failure with no endpoint test run.
C28_ReadinessWait ==
    \A i \in ContainerTest :
        ci.ran[i].outcome # "not started" =>
            /\ ci.probes \in 1..max_attempts
            /\ ci.slept = ProbePause * (ci.probes - 1)
            /\ ci.firstReady <= max_attempts =>
                  /\ ci.probes = ci.firstReady
                  /\ ci.endpointTests >= 1
                  /\ ci.ran[i].outcome # "not ready"
            /\ ci.firstReady > max_attempts =>
                  /\ ci.probes = max_attempts
                  /\ ci.endpointTests = 0
                  /\ ci.ran[i].outcome = "not ready"
                  /\ ci.pc = "exited" /\ ci.exit = 1

\* no probe succeeded: every probe made, a pause after each but the last, no
\* endpoint test, exit 1
C28_Witness ==
    /\ ci.pc = "exited" /\ ci.exit = 1
    /\ ci.firstReady = max_attempts + 1
    /\ ci.probes = max_attempts /\ ci.slept = ProbePause * (max_attempts - 1)
    /\ ci.endpointTests = 0
    /\ \E i \in ContainerTest : ci.ran[i].outcome = "not ready"

====
